---- MODULE Spec2Model ----
(***************************************************************************)
(* Chain visualization engine of the blockchain dashboard                  *)
(* (components/BlockchainVisualization): the geometry builder run by the   *)
(* effect, the requestAnimationFrame render loop and the effect lifecycle  *)
(* (mount, replacement of the blocks prop, unmount).                       *)
(*                                                                         *)
(* Fixed-point units: coordinates are in thousandths, angles and heights   *)
(* in tenths (0.5 = 5), one rotation unit is the per-frame increment 0.005.*)
(***************************************************************************)
EXTENDS Integers, Sequences, FiniteSets, TLC

\* ------------------------------------------------------------------ bounds
MaxBlocks == 4        \* longest block sequence given to the geometry builder
MaxIndex == 3         \* largest value of a block's index field
MaxPropBlocks == 2    \* longest blocks prop given to a mounted component
MaxFirstIndex == 1    \* largest index field of the first block of a blocks prop
MaxBuilds == 2        \* scenes built (effect runs) in one behaviour
MaxFrames == 2        \* render cycles run per scene
MaxWidth == 1         \* largest clientWidth of the host div

\* ------------------------------------------------------- program constants
radius == 3
HighlightColor == 9647082      \* 0x9333ea
BaseColor == 7020968           \* 0x6b21a8
ConnectorColor == 4988309      \* 0x4c1d95
HostHeight == 400              \* h-[400px]

VARIABLES
    bBlocks,      \* geometry builder: the blocks array iterated by forEach
    bGroup,       \* geometry builder: blockGroup while the forEach runs
    bIndex,       \* geometry builder: array position of the next callback
    mounted,      \* the component is mounted
    blocks,       \* the blocks prop of the latest render
    pc,           \* what React has scheduled: "idle", "cleanup" or "effect"
    refAttached,  \* mountRef.current is the host div (not null)
    clientWidth,  \* mountRef.current.clientWidth
    clientHeight, \* mountRef.current.clientHeight
    hostChildren, \* children of the host div: the scenes whose canvas it holds
    cur,          \* scene whose cleanup function React holds (0: none)
    nextSid,      \* number of the next scene (effect closure) to be created
    scenes,       \* the reachable effect closures: scene number -> its objects
    rafQueue,     \* pending requestAnimationFrame requests
    listeners,    \* scenes whose handleResize is a resize listener of window
    gpu,          \* GPU-backed objects created and not disposed
    torn,         \* scenes whose cleanup function has run
    teardownLog,  \* what the latest run of a cleanup function did
    staleDraws,   \* scenes drawn after their cleanup function had run
    refBuild,     \* a build kept for comparison with later builds
    fault,        \* exception raised by the latest handler ("none": none)
    pageMounted,  \* Home is mounted
    homeBlocks,   \* Home: the blocks state, as a JSON value
    loading,      \* Home: the loading state
    isActive,     \* Home polling effect: let isActive
    intervalId,   \* Home polling effect: let intervalId (0: undefined)
    timers,       \* interval timers registered and not cleared
    fetches,      \* fetchBlocks calls awaiting their response
    nextFetch,    \* number of the next fetchBlocks call
    lastFetch,    \* what the fetchBlocks call that finished last got
    mining,       \* Home: the mining state
    mineRequests, \* handleMining calls awaiting the response of /mine
    newest        \* the chain the fetchBlocks call started last has got

builderVars == <<bBlocks, bGroup, bIndex>>
hostVars == <<refAttached, clientWidth, clientHeight>>
lifeVars == <<mounted, blocks, pc, refAttached, clientWidth, clientHeight,
              hostChildren, cur, nextSid, scenes, rafQueue, listeners, gpu,
              torn, teardownLog, staleDraws, refBuild, fault>>
pageVars == <<pageMounted, homeBlocks, loading, isActive, intervalId, timers,
              fetches, nextFetch, lastFetch, mining, mineRequests, newest>>
vars == <<bBlocks, bGroup, bIndex, mounted, blocks, pc, refAttached,
          clientWidth, clientHeight, hostChildren, cur, nextSid, scenes,
          rafQueue, listeners, gpu, torn, teardownLog, staleDraws, refBuild,
          fault, pageMounted, homeBlocks, loading, isActive, intervalId,
          timers, fetches, nextFetch, lastFetch, mining, mineRequests,
          newest>>

\* ------------------------------------------------------------ block input
\* A Block as the component declares it; hash, previous_hash and
\* transactions are never read by the component.
Block(i) == [index |-> i]

SeqsUpTo(S, n) == UNION {[1..k -> S] : k \in 0..n}

BlockSeqs == SeqsUpTo({Block(i) : i \in 0..MaxIndex}, MaxBlocks)

\* ------------------------------------------------------- spiral placement
\* 1000 * cos(0.5 * k) and 1000 * sin(0.5 * k), rounded, for k = 0..7
CosTable == <<1000, 878, 540, 71, -416, -801, -990, -936>>
SinTable == <<0, 479, 841, 997, 909, 598, 141, -351>>

\* Math.cos / Math.sin of an angle given in tenths of a radian (a multiple of 5)
Cos(angle) == CosTable[(angle \div 5) + 1]
Sin(angle) == SinTable[(angle \div 5) + 1]

Vector3(x, y, z) == [x |-> x, y |-> y, z |-> z]

\* Object3D.position of a freshly constructed object
Origin == Vector3(0, 0, 0)

\* mesh.position of the block at array position index (0-based)
MeshPosition(index) ==
    LET angle == index * 5
    IN  Vector3(Cos(angle) * radius, index * 5 * 100, Sin(angle) * radius)

MaterialColorOffByOne(block, blks) ==
    IF block.index = Len(blks) THEN HighlightColor ELSE BaseColor

\* color of the MeshPhongMaterial of a block
MaterialColor(block, blks) ==
    IF block.index = Len(blks) - 1 THEN HighlightColor ELSE BaseColor

\* ---------------------------------------------------------- scene objects
Mesh(position, color) ==
    [kind |-> "Mesh", position |-> position, color |-> color, points |-> <<>>]

Line(points) ==
    [kind |-> "Line", position |-> Origin, color |-> ConnectorColor, points |-> points]

NewGroupKeptAcrossBuilds == [children |-> <<>>, rotation |-> Cardinality(torn)]

\* new THREE.Group()
NewGroup == [children |-> <<>>, rotation |-> 0]

GroupAdd(group, object) ==
    [group EXCEPT !.children = Append(@, object)]

HasConnectorFromSecond(index) == index > 1

\* whether the forEach callback at array position index adds a connector
HasConnector(index) == index > 0

\* blockGroup.children[index - 1] (0-based) read after the mesh was added
PreviousMesh(group, index) == group.children[(index - 1) + 1]

PlaceBlockByIndexField(group, blks, index) ==
    LET block == blks[index + 1]
        mesh == Mesh(MeshPosition(block.index), MaterialColor(block, blks))
        withMesh == GroupAdd(group, mesh)
        previousMesh == PreviousMesh(withMesh, index)
        line == Line(<<previousMesh.position, mesh.position>>)
    IN  IF HasConnector(index) THEN GroupAdd(withMesh, line) ELSE withMesh

\* The forEach callback for the block at array position index (0-based).
PlaceBlock(group, blks, index) ==
    LET block == blks[index + 1]
        mesh == Mesh(MeshPosition(index), MaterialColor(block, blks))
        withMesh == GroupAdd(group, mesh)
        previousMesh == PreviousMesh(withMesh, index)
        line == Line(<<previousMesh.position, mesh.position>>)
    IN  IF HasConnector(index) THEN GroupAdd(withMesh, line) ELSE withMesh

\* blocks.forEach(...) on a fresh group: the callbacks for positions 0..n-1
RECURSIVE ForEachFrom(_, _, _)
ForEachFrom(group, blks, index) ==
    IF index >= Len(blks) THEN group
    ELSE ForEachFrom(PlaceBlock(group, blks, index), blks, index + 1)

BuildGroup(blks) == ForEachFrom(NewGroup, blks, 0)

\* ------------------------------------------------- reading a built group
Meshes(group) == SelectSeq(group.children, LAMBDA o : o.kind = "Mesh")
Lines(group) == SelectSeq(group.children, LAMBDA o : o.kind = "Line")

Max(a, b) == IF a >= b THEN a ELSE b

\* ------------------------------------------------------------ props, host
\* A chain of n blocks with consecutive index fields from first on
Chain(n, first) == [i \in 1..n |-> Block(first + i - 1)]

\* The blocks props given to a mounted component: the chains the page
\* fetched, whose first block may have index 0 or a later one
PropSeqs == {Chain(n, first) : n \in 0..MaxPropBlocks, first \in 0..MaxFirstIndex}

RECURSIVE GCD(_, _)
GCD(a, b) == IF b = 0 THEN a ELSE GCD(b, a % b)

\* width / height in IEEE arithmetic, as a reduced fraction: 0/0 is NaN
\* (num 0, den 0) and w/0 is Infinity (num 1, den 0)
Divide(width, height) ==
    IF height = 0
    THEN [num |-> IF width = 0 THEN 0 ELSE 1, den |-> 0]
    ELSE [num |-> width \div GCD(width, height), den |-> height \div GCD(width, height)]

Range(seq) == {seq[i] : i \in 1..Len(seq)}

Remove(seq, x) == SelectSeq(seq, LAMBDA y : y # x)

Put(fn, key, value) ==
    [k \in DOMAIN fn \cup {key} |-> IF k = key THEN value ELSE fn[k]]

Restrict(fn, keys) == [k \in DOMAIN fn \cap keys |-> fn[k]]

\* ------------------------------------------------------------------ scene
NoHandle == <<0, 0>>

\* scene, camera, renderer and blockGroup as the effect has set them up when
\* it reaches the animation: the renderer sized to the host, the camera
\* aspect width / height, the group built from the blocks
SetupScene(blks, width, height) ==
    [blocks |-> blks,
     group |-> BuildGroup(blks),
     size |-> <<width, height>>,
     aspect |-> Divide(width, height),
     frameId |-> NoHandle,
     draws |-> 0,
     resized |-> FALSE]

\* the handle requestAnimationFrame returns to scene sid: one never given before
RequestHandle(sid, scene) == <<sid, scene.draws + 1>>

AnimateKeepingFirstHandle(sid, scene) ==
    [scene EXCEPT !.frameId = IF @ = NoHandle THEN RequestHandle(sid, scene) ELSE @,
                  !.group.rotation = @ + 1,
                  !.draws = @ + 1]

AnimateWithoutRotation(sid, scene) ==
    [scene EXCEPT !.frameId = RequestHandle(sid, scene),
                  !.draws = @ + 1]

\* animate(): frameId = requestAnimationFrame(animate); rotation.y += 0.005;
\* renderer.render(scene, camera)
Animate(sid, scene) ==
    [scene EXCEPT !.frameId = RequestHandle(sid, scene),
                  !.group.rotation = @ + 1,
                  !.draws = @ + 1]

HandleResizeResettingRotation(scene, width, height) ==
    [scene EXCEPT !.size = <<width, height>>, !.aspect = Divide(width, height),
                  !.group.rotation = 0, !.resized = TRUE]

\* handleResize() with mountRef.current set; resized notes that it has run
HandleResize(scene, width, height) ==
    [scene EXCEPT !.size = <<width, height>>, !.aspect = Divide(width, height),
                  !.resized = TRUE]

\* GPU-backed objects a scene creates: one WebGL renderer, and one geometry
\* and one material for each mesh and each line
GpuAfterBuild(g, scene) ==
    [renderers |-> g.renderers + 1,
     geometries |-> g.geometries + Len(scene.group.children),
     materials |-> g.materials + Len(scene.group.children)]

\* The cleanup function disposes of nothing
GpuAfterCleanup(g) == g

CancelNothing(queue, handle) == queue

\* cancelAnimationFrame(handle)
Cancel(queue, handle) == {e \in queue : e.handle # handle}

\* closures something can still call: the one React holds, the callbacks of
\* pending frames and the registered listeners
Reachable(held, queue, ls) == {held} \cup {e.sid : e \in queue} \cup ls

NoTeardown ==
    [sid |-> 0, frameId |-> NoHandle, runs |-> 0, hostPresent |-> FALSE,
     cancelled |-> FALSE, detached |-> FALSE, released |-> FALSE,
     unlistened |-> FALSE]

NoBuild == [sid |-> 0, blocks |-> <<>>, group |-> [children |-> <<>>, rotation |-> 0]]

\* ------------------------------------------------------------- lifecycle
BuilderIdle ==
    /\ bBlocks = <<>>
    /\ bGroup = NewGroup
    /\ bIndex = 0

LifeInit ==
    /\ mounted = FALSE
    /\ blocks = <<>>
    /\ pc = "idle"
    /\ refAttached = FALSE
    /\ clientWidth = 0
    /\ clientHeight = 0
    /\ hostChildren = <<>>
    /\ cur = 0
    /\ nextSid = 1
    /\ scenes = <<>>
    /\ rafQueue = {}
    /\ listeners = {}
    /\ gpu = [renderers |-> 0, geometries |-> 0, materials |-> 0]
    /\ torn = {}
    /\ teardownLog = NoTeardown
    /\ staleDraws = {}
    /\ refBuild = NoBuild
    /\ fault = "none"

\* JSON values that data.chain can be: an array of blocks, or not an array
Array(items) == [type |-> "array", items |-> items]
Undefined == [type |-> "undefined", items |-> <<>>]
IsArray(value) == value.type = "array"

NoFetch == [status |-> "none", chain |-> Undefined]

\* No Home page: the component is used on its own
PageIdle ==
    /\ pageMounted = FALSE
    /\ homeBlocks = Array(<<>>)
    /\ loading = TRUE
    /\ isActive = FALSE
    /\ intervalId = 0
    /\ timers = {}
    /\ fetches = {}
    /\ nextFetch = 1
    /\ lastFetch = NoFetch
    /\ mining = FALSE
    /\ mineRequests = 0
    /\ newest = Undefined

Init == LifeInit /\ BuilderIdle /\ PageIdle

\* React mounts the component with props b; the host div is laid out
\* width x height, or the ref is not set when the effect will run.
Mount(b, attached, width, height) ==
    /\ ~mounted
    /\ pc = "idle"
    /\ nextSid <= MaxBuilds
    /\ attached \/ (width = 0 /\ height = 0)
    /\ mounted' = TRUE
    /\ blocks' = b
    /\ refAttached' = attached
    /\ clientWidth' = width
    /\ clientHeight' = height
    /\ hostChildren' = <<>>
    /\ pc' = "effect"
    /\ UNCHANGED <<cur, nextSid, scenes, rafQueue, listeners, gpu, torn,
                   teardownLog, staleDraws, refBuild, fault>>
    /\ UNCHANGED builderVars

ScheduledWithoutCleanup(held) == "effect"

\* What React schedules when a dependency of the effect changed: the cleanup
\* function the effect returned, if it holds one, and after it the effect
Scheduled(held) == IF held # 0 THEN "cleanup" ELSE "effect"

\* The parent renders the component with a new blocks array: the dependency
\* [blocks] changed, so React runs the held cleanup and then the effect.
SetBlocks(b) ==
    /\ mounted
    /\ pc = "idle"
    /\ nextSid <= MaxBuilds
    /\ blocks' = b
    /\ pc' = Scheduled(cur)
    /\ UNCHANGED <<mounted, hostVars, hostChildren, cur, nextSid, scenes,
                   rafQueue, listeners, gpu, torn, teardownLog, staleDraws,
                   refBuild, fault>>
    /\ UNCHANGED builderVars

\* The effect body (useEffect callback). refBuild records this build, or
\* keeps the earlier build it holds, for comparison with later builds.
RunEffect ==
    /\ pc = "effect"
    /\ pc' = "idle"
    /\ IF ~refAttached
       THEN /\ cur' = 0
            /\ UNCHANGED <<hostChildren, nextSid, scenes, rafQueue, listeners,
                           gpu, refBuild>>
       ELSE LET sid == nextSid
                built == SetupScene(blocks, clientWidth, clientHeight)
                handle == RequestHandle(sid, built)
                running == Animate(sid, built)
            IN  /\ hostChildren' = Append(hostChildren, sid)
                /\ scenes' = Put(scenes, sid, running)
                /\ rafQueue' = rafQueue \cup {[handle |-> handle, sid |-> sid]}
                /\ listeners' = listeners \cup {sid}
                /\ gpu' = GpuAfterBuild(gpu, built)
                /\ cur' = sid
                /\ nextSid' = nextSid + 1
                /\ refBuild' \in {refBuild,
                                  [sid |-> sid, blocks |-> blocks, group |-> built.group]}
    /\ UNCHANGED <<mounted, blocks, hostVars, torn, teardownLog, staleDraws, fault>>
    /\ UNCHANGED builderVars

RemoveEventListenerOfNewClosure(ls, sid) == ls

\* window.removeEventListener("resize", handleResize) with the handleResize
\* of scene sid: removes that listener if it is registered
RemoveEventListener(ls, sid) == ls \ {sid}

\* The function the effect returned, for scene sid whose closure holds
\* frameId: removeEventListener, cancelAnimationFrame, removeChild if the
\* ref is set (removeChild of a node that is no child throws NotFoundError).
CleanupBody(sid, frameId, runs) ==
    /\ listeners' = RemoveEventListener(listeners, sid)
    /\ rafQueue' = Cancel(rafQueue, frameId)
    /\ IF refAttached
       THEN IF sid \in Range(hostChildren)
            THEN hostChildren' = Remove(hostChildren, sid) /\ fault' = fault
            ELSE hostChildren' = hostChildren /\ fault' = "NotFoundError"
       ELSE hostChildren' = hostChildren /\ fault' = fault
    /\ gpu' = GpuAfterCleanup(gpu)
    /\ torn' = torn \cup {sid}
    /\ teardownLog' =
          [sid |-> sid, frameId |-> frameId, runs |-> runs,
           hostPresent |-> refAttached,
           cancelled |-> rafQueue' # rafQueue,
           detached |-> hostChildren' # hostChildren,
           released |-> gpu' # gpu,
           unlistened |-> listeners' # listeners]

\* React runs the cleanup function it holds: before the effect runs again for
\* a new blocks array, or on unmount. The closures in kept stay referenced
\* by something other than React, pending frames and listeners.
RunCleanupKeeping(kept) ==
    /\ pc = "cleanup"
    /\ cur # 0
    /\ CleanupBody(cur, scenes[cur].frameId, 1)
    /\ cur' = 0
    /\ scenes' = Restrict(scenes, Reachable(0, rafQueue', listeners') \cup kept)
    /\ pc' = IF mounted THEN "effect" ELSE "idle"
    /\ refAttached' = (mounted /\ refAttached)
    /\ UNCHANGED <<mounted, blocks, clientWidth, clientHeight, nextSid,
                   staleDraws, refBuild>>
    /\ UNCHANGED builderVars

RunCleanup == RunCleanupKeeping({})

\* React unmounts the component. The ref is cleared before the cleanup runs
\* (passive effects are flushed after the commit) or after it (cleanup run
\* inside the commit), depending on the React version.
Unmount(detachFirst) ==
    /\ mounted
    /\ pc = "idle"
    /\ mounted' = FALSE
    /\ pc' = IF cur # 0 THEN "cleanup" ELSE "idle"
    /\ refAttached' = (refAttached /\ cur # 0 /\ ~detachFirst)
    /\ UNCHANGED <<blocks, clientWidth, clientHeight, hostChildren, cur,
                   nextSid, scenes, rafQueue, listeners, gpu, torn,
                   teardownLog, staleDraws, refBuild, fault>>
    /\ UNCHANGED builderVars

\* The browser runs the callback of the pending request e: animate() of
\* scene e.sid.
Frame(e) ==
    /\ e \in rafQueue
    /\ pc # "effect"
    /\ scenes[e.sid].draws < MaxFrames
    /\ LET handle == RequestHandle(e.sid, scenes[e.sid])
       IN  /\ scenes' = [scenes EXCEPT ![e.sid] = Animate(e.sid, @)]
           /\ rafQueue' = (rafQueue \ {e}) \cup {[handle |-> handle, sid |-> e.sid]}
    /\ staleDraws' = IF e.sid \in torn THEN staleDraws \cup {e.sid} ELSE staleDraws
    /\ UNCHANGED <<mounted, blocks, pc, hostVars, hostChildren, cur, nextSid,
                   listeners, gpu, torn, teardownLog, refBuild, fault>>
    /\ UNCHANGED builderVars

\* The window is resized: the host div is laid out width x height and the
\* registered resize listeners run.
WindowResize(width, height) ==
    /\ mounted
    /\ refAttached
    /\ pc # "effect"
    /\ <<width, height>> # <<clientWidth, clientHeight>>
    /\ clientWidth' = width
    /\ clientHeight' = height
    /\ scenes' = [s \in DOMAIN scenes |->
                    IF s \in listeners
                    THEN HandleResize(scenes[s], width, height)
                    ELSE scenes[s]]
    /\ UNCHANGED <<mounted, blocks, pc, refAttached, hostChildren, cur,
                   nextSid, rafQueue, listeners, gpu, torn, teardownLog,
                   staleDraws, refBuild, fault>>
    /\ UNCHANGED builderVars

Widths == 0..MaxWidth
\* the host div is 400px high once laid out, and 0 before
Heights == {0, HostHeight}

Next ==
    \/ \E b \in PropSeqs, attached \in BOOLEAN, w \in Widths, h \in Heights :
          Mount(b, attached, w, h) /\ UNCHANGED pageVars
    \/ \E b \in PropSeqs : SetBlocks(b) /\ UNCHANGED pageVars
    \/ RunEffect /\ UNCHANGED pageVars
    \/ RunCleanup /\ UNCHANGED pageVars
    \/ \E detachFirst \in BOOLEAN : Unmount(detachFirst) /\ UNCHANGED pageVars
    \/ \E e \in rafQueue : Frame(e) /\ UNCHANGED pageVars
    \/ \E w \in Widths, h \in Heights : WindowResize(w, h) /\ UNCHANGED pageVars

Spec == Init /\ [][Next]_vars

\* React always runs the cleanup and the effect it has scheduled, and the
\* browser always delivers a requested animation frame.
SpecFair ==
    /\ Spec
    /\ WF_vars(RunCleanup /\ UNCHANGED pageVars)
    /\ WF_vars(RunEffect /\ UNCHANGED pageVars)
    /\ WF_vars(\E e \in rafQueue : Frame(e) /\ UNCHANGED pageVars)

\* The cleanup function of the scene torn down last is called a second time,
\* before any other scene is built.
RunCleanupAgain ==
    /\ teardownLog.runs = 1
    /\ cur = 0
    /\ nextSid = teardownLog.sid + 1
    /\ CleanupBody(teardownLog.sid, teardownLog.frameId, 2)
    /\ scenes' = Restrict(scenes, Reachable(0, rafQueue', listeners'))
    /\ UNCHANGED <<mounted, blocks, pc, hostVars, cur, nextSid, staleDraws, refBuild>>
    /\ UNCHANGED builderVars

NextTwice == Next \/ (RunCleanupAgain /\ UNCHANGED pageVars)

SpecTwice == Init /\ [][NextTwice]_vars

\* The cleanup runs while the callbacks of its scene are still held by a
\* caller (a frame callback or a resize event already dispatched).
HoldCleanup == RunCleanupKeeping({cur})

\* animate() of a scene is called after the scene's cleanup function has run.
StaleFrame(s) ==
    /\ s \in DOMAIN scenes \cap torn
    /\ \A e \in rafQueue : e.sid # s
    /\ pc # "effect"
    /\ scenes[s].draws < MaxFrames
    /\ LET handle == RequestHandle(s, scenes[s])
       IN  /\ scenes' = [scenes EXCEPT ![s] = Animate(s, @)]
           /\ rafQueue' = rafQueue \cup {[handle |-> handle, sid |-> s]}
    /\ staleDraws' = staleDraws \cup {s}
    /\ UNCHANGED <<mounted, blocks, pc, hostVars, hostChildren, cur, nextSid,
                   listeners, gpu, torn, teardownLog, refBuild, fault>>
    /\ UNCHANGED builderVars

\* handleResize() of a scene is called after the scene's cleanup function
\* has run: it returns at once if the ref is null.
StaleResize(s) ==
    /\ s \in DOMAIN scenes \cap torn
    /\ pc # "effect"
    /\ scenes' = IF refAttached
                 THEN [scenes EXCEPT ![s] = HandleResize(@, clientWidth, clientHeight)]
                 ELSE scenes
    /\ UNCHANGED <<mounted, blocks, pc, hostVars, hostChildren, cur, nextSid,
                   rafQueue, listeners, gpu, torn, teardownLog, staleDraws,
                   refBuild, fault>>
    /\ UNCHANGED builderVars

NextStale ==
    \/ Next
    \/ HoldCleanup /\ UNCHANGED pageVars
    \/ \E s \in DOMAIN scenes : StaleFrame(s) /\ UNCHANGED pageVars
    \/ \E s \in DOMAIN scenes : StaleResize(s) /\ UNCHANGED pageVars

SpecStale == Init /\ [][NextStale]_vars

\* ------------------------------------------------------------- Home page
MaxFetches == 2

\* What a fetchBlocks call gets: a decoded body with some data.chain, a
\* response that is not ok, or a rejected fetch / json()
Responses ==
    {[status |-> "ok", chain |-> Array(c)] : c \in PropSeqs}
        \cup {[status |-> "ok", chain |-> Undefined],
              [status |-> "http", chain |-> Undefined],
              [status |-> "fault", chain |-> Undefined]}

AcceptedWithoutArrayCheck(resp) == resp.status = "ok"

\* fetchBlocks reaches setBlocks(data.chain): nothing was thrown before it
Accepted(resp) == resp.status = "ok" /\ IsArray(resp.chain)

NextBlocksIgnoringOutcome(resp, old) == resp.chain

\* the blocks state after fetchBlocks got resp
NextBlocks(resp, old) == IF Accepted(resp) THEN resp.chain ELSE old

\* Home just mounted: first render (spinner), the polling effect has run and
\* initializeBlockchain awaits its fetchBlocks call
InitPage ==
    /\ LifeInit
    /\ BuilderIdle
    /\ pageMounted = TRUE
    /\ homeBlocks = Array(<<>>)
    /\ loading = TRUE
    /\ isActive = TRUE
    /\ intervalId = 0
    /\ timers = {}
    /\ fetches = {[id |-> 1, origin |-> "init"]}
    /\ nextFetch = 2
    /\ lastFetch = NoFetch
    /\ mining = FALSE
    /\ mineRequests = 0
    /\ newest = Undefined

\* fetchBlocks is called
StartFetch(origin) ==
    /\ nextFetch <= MaxFetches
    /\ fetches' = fetches \cup {[id |-> nextFetch, origin |-> origin]}
    /\ nextFetch' = nextFetch + 1

\* The fetchBlocks call f gets resp and runs to its end: setBlocks if nothing
\* was thrown, setLoading(false) in any case; React renders Home again, which
\* mounts BlockchainVisualization (its host div laid out at full width) when
\* loading was true and gives it the new array otherwise. State setters of
\* an unmounted Home do nothing. The call of initializeBlockchain goes on to
\* setInterval, the call of handleMining to its finally: setMining(false).
FetchCompletes(f, resp) ==
    /\ f \in fetches
    /\ pc = "idle"
    /\ fetches' = fetches \ {f}
    /\ lastFetch' = resp
    /\ IF pageMounted
       THEN /\ homeBlocks' = NextBlocks(resp, homeBlocks)
            /\ loading' = FALSE
            /\ IF loading
               THEN Mount(homeBlocks'.items, TRUE, MaxWidth, HostHeight)
               ELSE IF Accepted(resp)
                    THEN SetBlocks(homeBlocks'.items)
                    ELSE UNCHANGED lifeVars /\ UNCHANGED builderVars
       ELSE /\ UNCHANGED <<homeBlocks, loading>>
            /\ UNCHANGED lifeVars
            /\ UNCHANGED builderVars
    /\ IF f.origin = "init"
       THEN intervalId' = 1 /\ timers' = timers \cup {1}
       ELSE UNCHANGED <<intervalId, timers>>
    /\ mining' = IF f.origin = "mine" /\ pageMounted THEN FALSE ELSE mining
    /\ UNCHANGED <<pageMounted, isActive, nextFetch, mineRequests>>

\* The interval callback of timer t runs
PollTick(t) ==
    /\ t \in timers
    /\ pc = "idle"
    /\ IF isActive
       THEN StartFetch("poll")
       ELSE UNCHANGED <<fetches, nextFetch>>
    /\ UNCHANGED <<pageMounted, homeBlocks, loading, isActive, intervalId,
                   timers, lastFetch, mining, mineRequests>>
    /\ UNCHANGED lifeVars
    /\ UNCHANGED builderVars

\* onSubmitTransaction got an ok response and refreshes the chain
TransactionAccepted ==
    /\ pageMounted
    /\ pc = "idle"
    /\ StartFetch("transaction")
    /\ UNCHANGED <<pageMounted, homeBlocks, loading, isActive, intervalId,
                   timers, lastFetch, mining, mineRequests>>
    /\ UNCHANGED lifeVars
    /\ UNCHANGED builderVars

\* Home is unmounted: the cleanup of the polling effect runs, and the
\* visualization, if it is rendered, is unmounted with it
PageUnmount(detachFirst) ==
    /\ pageMounted
    /\ pc = "idle"
    /\ pageMounted' = FALSE
    /\ isActive' = FALSE
    /\ timers' = IF intervalId # 0 THEN timers \ {intervalId} ELSE timers
    /\ IF mounted
       THEN Unmount(detachFirst)
       ELSE UNCHANGED lifeVars /\ UNCHANGED builderVars
    /\ UNCHANGED <<homeBlocks, loading, intervalId, fetches, nextFetch,
                   lastFetch, mining, mineRequests>>

NextPage ==
    \/ \E f \in fetches, resp \in Responses :
          FetchCompletes(f, resp) /\ UNCHANGED newest
    \/ \E t \in timers : PollTick(t) /\ UNCHANGED newest
    \/ TransactionAccepted /\ UNCHANGED newest
    \/ \E detachFirst \in BOOLEAN : PageUnmount(detachFirst) /\ UNCHANGED newest
    \/ RunEffect /\ UNCHANGED pageVars
    \/ RunCleanup /\ UNCHANGED pageVars
    \/ \E e \in rafQueue : Frame(e) /\ UNCHANGED pageVars
    \/ \E w \in Widths, h \in Heights : WindowResize(w, h) /\ UNCHANGED pageVars

SpecPage == InitPage /\ [][NextPage]_vars

\* ---------------------------------------------------------------- mining
ButtonNeverDisabled(flag) == FALSE

\* <Button onClick={handleMining} disabled={mining}>
ButtonDisabled(flag) == flag

\* What the request of handleMining ends in: an ok response with a JSON
\* body, a response that is not ok, a rejected fetch or json()
MineResponses == {"ok", "http", "fault"}

\* The Mine button is clicked: handleMining sets the flag and sends /mine
HandleMining ==
    /\ pageMounted
    /\ pc = "idle"
    /\ ~ButtonDisabled(mining)
    /\ mining' = TRUE
    /\ mineRequests' = mineRequests + 1
    /\ UNCHANGED <<pageMounted, homeBlocks, loading, isActive, intervalId,
                   timers, fetches, nextFetch, lastFetch>>
    /\ UNCHANGED lifeVars
    /\ UNCHANGED builderVars

\* handleMining gets the outcome of its request: on ok it goes on to await
\* fetchBlocks(), otherwise to catch and finally: setMining(false)
MineResponds(resp) ==
    /\ mineRequests > 0
    /\ pc = "idle"
    /\ mineRequests' = mineRequests - 1
    /\ IF resp = "ok"
       THEN StartFetch("mine") /\ UNCHANGED mining
       ELSE /\ mining' = IF pageMounted THEN FALSE ELSE mining
            /\ UNCHANGED <<fetches, nextFetch>>
    /\ UNCHANGED <<pageMounted, homeBlocks, loading, isActive, intervalId,
                   timers, lastFetch>>
    /\ UNCHANGED lifeVars
    /\ UNCHANGED builderVars

NextMining ==
    \/ NextPage
    \/ HandleMining /\ UNCHANGED newest
    \/ \E resp \in MineResponses : MineResponds(resp) /\ UNCHANGED newest

SpecMining == InitPage /\ [][NextMining]_vars

\* Every request gets its response or its failure, and React runs the
\* cleanup and the effect it has scheduled.
SpecMiningFair ==
    /\ SpecMining
    /\ WF_vars(\E resp \in MineResponses : MineResponds(resp) /\ UNCHANGED newest)
    /\ WF_vars(\E f \in fetches, resp \in Responses :
                  FetchCompletes(f, resp) /\ UNCHANGED newest)
    /\ WF_vars(RunCleanup /\ UNCHANGED pageVars)
    /\ WF_vars(RunEffect /\ UNCHANGED pageVars)

\* ------------------------------------------- geometry builder, stepwise
\* blocks.forEach(...) on a fresh group, one callback per step, for every
\* block sequence within the bounds
InitBuild ==
    /\ LifeInit
    /\ PageIdle
    /\ bBlocks \in BlockSeqs
    /\ bGroup = NewGroup
    /\ bIndex = 0

ForEachStep ==
    /\ bIndex < Len(bBlocks)
    /\ bGroup' = PlaceBlock(bGroup, bBlocks, bIndex)
    /\ bIndex' = bIndex + 1
    /\ UNCHANGED bBlocks
    /\ UNCHANGED lifeVars
    /\ UNCHANGED pageVars

NextBuild == ForEachStep

SpecBuild == InitBuild /\ [][NextBuild]_vars

BuildDone == bIndex = Len(bBlocks)

\* ------------------------------------------------------------------ C1
\* C1: after the callbacks for the first k blocks the group holds exactly k
\* solid primitives (meshes) and max(0, k-1) connectors (lines) and nothing
\* else; so a finished build of N blocks holds N meshes and max(0, N-1)
\* lines, an empty input gives an empty group and one block gives one mesh.
C1_PrimitiveCounts ==
    /\ Len(Meshes(bGroup)) = bIndex
    /\ Len(Lines(bGroup)) = Max(0, bIndex - 1)
    /\ Len(bGroup.children) = bIndex + Max(0, bIndex - 1)
    /\ (BuildDone /\ Len(bBlocks) = 0) => bGroup.children = <<>>
    /\ (BuildDone /\ Len(bBlocks) = 1) =>
          (Len(bGroup.children) = 1 /\ bGroup.children[1].kind = "Mesh")

C1_Witness == BuildDone /\ Len(bBlocks) = 3 /\ Len(Lines(bGroup)) = 2

\* ------------------------------------------------------------------ C2
\* C2: the connector of block i (the i-th line of the group, i >= 1) starts
\* at the position of the mesh of block i-1 and ends at the position of the
\* mesh of block i.
C2_ConnectorJoinsNeighbours ==
    \A i \in 1..Len(Lines(bGroup)) :
        Lines(bGroup)[i].points =
            <<Meshes(bGroup)[i].position, Meshes(bGroup)[i + 1].position>>

\* ------------------------------------------------------------------ C3
Highlighted(group) ==
    {i \in 1..Len(Meshes(group)) : Meshes(group)[i].color = HighlightColor}

IndexIsPosition(blks) == \A i \in 1..Len(blks) : blks[i].index = i - 1

MaterialRuleHolds ==
    \A i \in 1..Len(bBlocks) :
        Meshes(bGroup)[i].color =
            IF bBlocks[i].index = Len(bBlocks) - 1 THEN HighlightColor ELSE BaseColor

\* C3 as stated: in a finished build the blocks whose index field is N-1 are
\* the highlighted ones, and exactly one mesh is highlighted when N >= 1 and
\* none when N = 0, whatever the index fields are.
C3_ExactlyOneHighlighted ==
    BuildDone =>
        /\ MaterialRuleHolds
        /\ Cardinality(Highlighted(bGroup)) = IF Len(bBlocks) >= 1 THEN 1 ELSE 0

\* C3 amended: in a finished build the blocks whose index field is N-1 are
\* the highlighted ones and all others have the base material; the number of
\* highlighted meshes is the number of such blocks, which is one when every
\* index field equals its array position (N >= 1) and zero when N = 0.
C3_HighlightFollowsIndexField ==
    BuildDone =>
        /\ MaterialRuleHolds
        /\ \A i \in 1..Len(bBlocks) :
              Meshes(bGroup)[i].color \in {HighlightColor, BaseColor}
        /\ Cardinality(Highlighted(bGroup)) =
              Cardinality({i \in 1..Len(bBlocks) : bBlocks[i].index = Len(bBlocks) - 1})
        /\ IndexIsPosition(bBlocks) =>
              Highlighted(bGroup) = IF Len(bBlocks) >= 1 THEN {Len(bBlocks)} ELSE {}
        /\ Len(bBlocks) = 0 => Highlighted(bGroup) = {}

C3_Witness ==
    /\ BuildDone
    /\ Len(bBlocks) = 3
    /\ Highlighted(bGroup) = {1, 2}


C5_TeardownIdempotent ==
    (teardownLog.runs = 2 /\ teardownLog.hostPresent) =>
        /\ fault = "none"
        /\ \A e \in rafQueue : e.sid # teardownLog.sid

\* ------------------------------------------------------------------ C6
\* C6: no scene is ever drawn or rotated after its cleanup function has run,
\* and no animation frame request of such a scene is pending.
C6_NoDrawAfterTeardown ==
    /\ staleDraws = {}
    /\ \A e \in rafQueue : e.sid \notin torn

C6_Witness ==
    /\ torn # {}
    /\ teardownLog.cancelled
    /\ teardownLog.frameId[2] >= 2
    /\ pc = "idle"

\* ------------------------------------------------------------------ C7
\* C7: at most one animation frame request is pending; while a scene is held
\* it is that scene's request and frameId is its handle; between the cleanup
\* of the old scene and the effect for the new one none is pending.
C7_SingleRenderCycle ==
    /\ Cardinality(rafQueue) <= 1
    /\ cur # 0 => rafQueue = {[handle |-> scenes[cur].frameId, sid |-> cur]}
    /\ cur = 0 => rafQueue = {}

C7_Witness ==
    /\ mounted
    /\ pc = "effect"
    /\ teardownLog.cancelled
    /\ teardownLog.frameId[2] >= 2
    /\ rafQueue = {}

\* ------------------------------------------------------------------ C8
\* C8: at most one renderer is live, the live geometries and materials are
\* those of the scene held, and nothing is live once the scene was torn down
\* (so also before the next scene is built).
C8_AtMostOneLiveScene ==
    /\ gpu.renderers <= 1
    /\ cur # 0 =>
          /\ gpu.geometries = Len(scenes[cur].group.children)
          /\ gpu.materials = Len(scenes[cur].group.children)
    /\ cur = 0 => gpu = [renderers |-> 0, geometries |-> 0, materials |-> 0]

\* ------------------------------------------------------------------ C9
\* C9: every run of a cleanup function cancelled the pending render cycle,
\* detached the canvas from the host div, released the GPU-backed objects
\* and removed the resize listener.
C9_TeardownDoesAllFour ==
    teardownLog.runs = 1 =>
        /\ teardownLog.cancelled
        /\ teardownLog.detached
        /\ teardownLog.released
        /\ teardownLog.unlistened

\* ----------------------------------------------------------------- C10
HostUnavailable == ~refAttached \/ clientWidth = 0 \/ clientHeight = 0

\* C10: an effect run that finds the host div unset or with zero width or
\* height creates no scene and no renderer, attaches no canvas, requests no
\* animation frame and registers no resize listener.
C10_BootstrapSkipped ==
    [][(pc = "effect" /\ HostUnavailable) =>
          /\ cur' = 0
          /\ scenes' = scenes
          /\ gpu' = gpu
          /\ hostChildren' = hostChildren
          /\ rafQueue' = rafQueue
          /\ listeners' = listeners]_vars

\* ----------------------------------------------------------------- C11
\* C11: a step that resizes the host of a mounted component sets the renderer
\* size and the camera aspect of the running scene to the new dimensions and
\* leaves everything else as it was: the scene held, what React has
\* scheduled, the primitives with their placements and materials, the group's
\* rotation, the pending frame request and its handle, the canvas and the
\* listener.
C11_ResizeOnlyResizes ==
    [][(mounted /\ <<clientWidth', clientHeight'>> # <<clientWidth, clientHeight>>) =>
          /\ mounted' /\ pc' = pc /\ cur' = cur /\ nextSid' = nextSid
          /\ blocks' = blocks /\ torn' = torn /\ teardownLog' = teardownLog
          /\ rafQueue' = rafQueue /\ listeners' = listeners
          /\ hostChildren' = hostChildren /\ gpu' = gpu
          /\ DOMAIN scenes' = DOMAIN scenes
          /\ \A s \in DOMAIN scenes :
                /\ scenes'[s].group = scenes[s].group
                /\ scenes'[s].blocks = scenes[s].blocks
                /\ scenes'[s].frameId = scenes[s].frameId
                /\ scenes'[s].draws = scenes[s].draws
          /\ cur # 0 =>
                /\ scenes'[cur].size = <<clientWidth', clientHeight'>>
                /\ scenes'[cur].aspect = Divide(clientWidth', clientHeight')]_vars

C11_Witness ==
    /\ cur # 0
    /\ scenes[cur].resized
    /\ scenes[cur].draws >= 2
    /\ Len(scenes[cur].group.children) >= 3
    /\ scenes[cur].size = <<clientWidth, clientHeight>>

\* ----------------------------------------------------------------- C12
\* C12: no step changes the rotation, the draw count, the renderer size, the
\* camera aspect or the frame handle of a scene whose cleanup function has
\* run, schedules a frame request for it or raises a fault: animate and
\* handleResize called for such a scene do nothing.
C12_StaleCallbackNoOp ==
    [][\A s \in DOMAIN scenes \cap torn :
          /\ s \in DOMAIN scenes' =>
                /\ scenes'[s].group = scenes[s].group
                /\ scenes'[s].draws = scenes[s].draws
                /\ scenes'[s].size = scenes[s].size
                /\ scenes'[s].aspect = scenes[s].aspect
                /\ scenes'[s].frameId = scenes[s].frameId
          /\ {e \in rafQueue' : e.sid = s} \subseteq {e \in rafQueue : e.sid = s}
          /\ fault' = fault]_vars

\* ----------------------------------------------------------------- C13
LifeState ==
    CASE pc = "effect" -> "BOOTSTRAPPING"
      [] pc = "cleanup" -> "TEARING_DOWN"
      [] pc = "idle" /\ cur # 0 -> "RUNNING"
      [] OTHER -> "UNMOUNTED"

LifeEdges ==
    {<<"UNMOUNTED", "BOOTSTRAPPING">>, <<"BOOTSTRAPPING", "RUNNING">>,
     <<"BOOTSTRAPPING", "UNMOUNTED">>, <<"RUNNING", "TEARING_DOWN">>,
     <<"TEARING_DOWN", "UNMOUNTED">>, <<"TEARING_DOWN", "BOOTSTRAPPING">>}

Built == 1..(nextSid - 1)

LifeOrder ==
    /\ pc = "effect" => (mounted /\ cur = 0 /\ rafQueue = {} /\ listeners = {})
    /\ pc = "cleanup" => (cur \in Built /\ cur \in DOMAIN scenes /\ cur \notin torn)
    /\ cur # 0 => (cur \in Built /\ cur \notin torn)
    /\ torn \cup ({cur} \ {0}) = Built

LifeStep ==
    /\ LifeState' # LifeState => <<LifeState, LifeState'>> \in LifeEdges
    /\ LifeState = "RUNNING" =>
          (cur' = cur /\ torn' = torn /\ nextSid' = nextSid)
    /\ LifeState = "TEARING_DOWN" /\ LifeState' # LifeState =>
          /\ torn' = torn \cup {cur}
          /\ cur' = 0
          /\ nextSid' = nextSid
          /\ LifeState' = IF mounted THEN "BOOTSTRAPPING" ELSE "UNMOUNTED"
    /\ LifeState = "BOOTSTRAPPING" =>
          /\ LifeState' \in {"RUNNING", "UNMOUNTED"}
          /\ torn' = torn
          /\ LifeState' = "RUNNING" => (cur' = nextSid /\ nextSid' = nextSid + 1)
          /\ LifeState' = "UNMOUNTED" => (~refAttached /\ nextSid' = nextSid)
    /\ LifeState = "UNMOUNTED" =>
          (cur' = 0 /\ torn' = torn /\ nextSid' = nextSid)

\* C13: the lifecycle moves only along UNMOUNTED -> BOOTSTRAPPING -> RUNNING
\* -> TEARING_DOWN -> UNMOUNTED or BOOTSTRAPPING (a skipped bootstrap returns
\* to UNMOUNTED); a teardown tears down the one scene that is running, a
\* build starts only when no scene is running, every built scene is running
\* or was torn down exactly once, and a teardown scheduled for a new blocks
\* array is followed by the teardown of the old scene and then the build of
\* exactly one new scene.
C13_LifecycleOrder ==
    /\ []LifeOrder
    /\ [][LifeStep]_vars
    /\ (pc # "idle") ~> (pc = "idle")

C13_Witness ==
    /\ LifeState = "RUNNING"
    /\ mounted
    /\ cur = 2
    /\ torn = {1}
    /\ teardownLog.hostPresent
    /\ teardownLog.frameId[2] >= 2

\* ----------------------------------------------------------------- C14
CycleCount ==
    /\ \A s \in DOMAIN scenes : scenes[s].group.rotation = scenes[s].draws
    /\ cur # 0 => [handle |-> scenes[cur].frameId, sid |-> cur] \in rafQueue

CycleStep ==
    /\ \A s \in DOMAIN scenes' \ DOMAIN scenes :
          scenes'[s].draws = 1 /\ scenes'[s].group.rotation = 1
    /\ \A s \in DOMAIN scenes \cap DOMAIN scenes' :
          scenes'[s].draws # scenes[s].draws =>
              /\ scenes'[s].draws = scenes[s].draws + 1
              /\ scenes'[s].group.rotation = scenes[s].group.rotation + 1
              /\ scenes'[s].group.children = scenes[s].group.children
              /\ scenes'[s].size = scenes[s].size
              /\ scenes'[s].aspect = scenes[s].aspect
              /\ scenes'[s].frameId # scenes[s].frameId
              /\ {e \in rafQueue' : e.sid = s} =
                    {[handle |-> scenes'[s].frameId, sid |-> s]}
              /\ Cardinality(rafQueue') = Cardinality(rafQueue)
              /\ \A t \in DOMAIN scenes \ {s} : scenes'[t] = scenes[t]
              /\ DOMAIN scenes' = DOMAIN scenes
              /\ UNCHANGED <<mounted, blocks, pc, hostVars, hostChildren, cur,
                             nextSid, listeners, gpu, torn, fault>>

C15_SpiralPlacement ==
    LET meshes == Meshes(bGroup)
    IN  /\ \A i \in 1..Len(meshes) :
              meshes[i].position =
                  [x |-> radius * CosTable[i], y |-> 500 * (i - 1),
                   z |-> radius * SinTable[i]]
        /\ \A i, j \in 1..Len(meshes) :
              i < j => /\ meshes[i].position.y < meshes[j].position.y
                       /\ meshes[i].position # meshes[j].position

C15_Witness ==
    /\ BuildDone
    /\ Len(bBlocks) = 3
    /\ bBlocks[2].index # 1
    /\ Meshes(bGroup)[2].position = [x |-> 2634, y |-> 500, z |-> 1437]

\* ----------------------------------------------------------------- C16
\* C16: the host element holds the canvas of the running scene as its only
\* child while a scene is running and no canvas once the scene was torn
\* down; it never holds two canvases.
C16_SoleRenderTarget ==
    /\ cur # 0 => hostChildren = <<cur>>
    /\ cur = 0 => hostChildren = <<>>
    /\ Len(hostChildren) <= 1

\* ----------------------------------------------------------------- C17
\* C17: the resize listeners registered on the window are exactly the
\* handleResize of the running scene, if there is one: one listener while a
\* scene runs, none after its teardown, never the listener of a scene torn
\* down, whatever mounts, rebuilds and unmounts came before.
C17_ListenerScoped ==
    /\ listeners = IF cur # 0 THEN {cur} ELSE {}
    /\ listeners \cap torn = {}
    /\ Cardinality(listeners) <= 1

C17_Witness ==
    /\ pc = "idle"
    /\ cur = 2
    /\ listeners = {2}
    /\ torn = {1}
    /\ teardownLog.unlistened
    /\ clientWidth = 1

\* ----------------------------------------------------------------- C18
\* C18: once Home is unmounted (the cleanup of its polling effect has run) no
\* interval timer is registered and the polling logic starts no fetchBlocks
\* call, also when the initial fetch finishes only after the unmount.
C18_PollingShutdown ==
    [][~pageMounted' =>
          /\ timers' = {}
          /\ \A f \in fetches' \ fetches : f.origin # "poll"]_vars

\* ----------------------------------------------------------------- C19
FetchFinishes == fetches' # fetches /\ fetches' \subseteq fetches

\* C19 as stated: every fetchBlocks that reached setBlocks stores the chain
\* and triggers the teardown of the running scene (and with it one rebuild);
\* every other one leaves the blocks state unchanged and a mounted
\* visualization alone.
C19_EveryFetchRebuilds ==
    [][FetchFinishes =>
          IF Accepted(lastFetch')
          THEN /\ homeBlocks' = lastFetch'.chain
               /\ blocks' = lastFetch'.chain.items
               /\ cur # 0 /\ cur' = cur
               /\ pc' = "cleanup"
          ELSE /\ homeBlocks' = homeBlocks
               /\ mounted => UNCHANGED lifeVars]_vars

\* C19: a fetchBlocks that finishes while Home is mounted stores the chain
\* if it reached setBlocks and leaves the blocks state unchanged otherwise.
\* The first one to finish, accepted or not, mounts the visualization with
\* the blocks state, which builds the first scene without a teardown. Every
\* later accepted one gives the visualization the fetched array and
\* schedules the teardown of the running scene, also for equal content, and
\* every later failed one changes nothing in the visualization. One that
\* finishes after the unmount of Home changes nothing. A scheduled teardown
\* tears down the running scene only and is followed by the build of one
\* scene from the stored chain.
C19_FetchDelivery ==
    /\ [][FetchFinishes =>
            /\ ~pageMounted => UNCHANGED <<homeBlocks, loading, lifeVars>>
            /\ pageMounted =>
                  homeBlocks' = IF Accepted(lastFetch') THEN lastFetch'.chain
                                                        ELSE homeBlocks
            /\ pageMounted /\ loading =>
                  /\ ~mounted /\ mounted'
                  /\ blocks' = homeBlocks'.items
                  /\ pc' = "effect"
                  /\ UNCHANGED <<cur, nextSid, torn, scenes>>
            /\ pageMounted /\ ~loading /\ Accepted(lastFetch') =>
                  /\ mounted /\ mounted'
                  /\ blocks' = lastFetch'.chain.items
                  /\ cur # 0 /\ cur' = cur
                  /\ pc' = "cleanup"
                  /\ UNCHANGED <<nextSid, torn, scenes>>
            /\ pageMounted /\ ~loading /\ ~Accepted(lastFetch') =>
                  UNCHANGED lifeVars]_vars
    /\ [][pc = "cleanup" /\ pc' # pc =>
            /\ torn' = torn \cup {cur}
            /\ pc' = IF mounted THEN "effect" ELSE "idle"
            /\ UNCHANGED <<nextSid, pageVars, blocks>>]_vars
    /\ [][pc = "effect" /\ pc' # pc =>
            /\ pc' = "idle"
            /\ cur' = nextSid
            /\ nextSid' = nextSid + 1
            /\ scenes'[cur'].blocks = homeBlocks.items
            /\ scenes'[cur'].group.children = BuildGroup(homeBlocks.items).children
            /\ UNCHANGED <<torn, pageVars, blocks>>]_vars

C19_Witness ==
    /\ pageMounted
    /\ Accepted(lastFetch)
    /\ fetches = {}
    /\ nextFetch = 3
    /\ pc = "idle"
    /\ cur = 2
    /\ torn = {1}
    /\ scenes[cur].blocks = lastFetch.chain.items
    /\ refBuild.sid = 1
    /\ refBuild.blocks = scenes[cur].blocks
    /\ Len(scenes[cur].blocks) = 2

\* ----------------------------------------------------------------- C20
LoadingGate ==
    /\ IsArray(homeBlocks)
    /\ mounted => (pageMounted /\ ~loading /\ blocks = homeBlocks.items)
    /\ (pageMounted /\ ~loading) => (mounted /\ lastFetch # NoFetch)
    /\ lastFetch = NoFetch => (loading /\ ~mounted /\ homeBlocks = Array(<<>>))
    /\ (pageMounted /\ loading) => lastFetch = NoFetch

\* C20: the blocks state of Home is always an array, the array the
\* visualization has whenever it is mounted; the visualization is mounted
\* exactly when Home is mounted and loading is false, which is so only after
\* a fetchBlocks call has finished; loading is true until the first call
\* finishes, accepted or not, and once false it stays false.
C20_ArrayAndLoadingGate ==
    /\ []LoadingGate
    /\ [][~loading => ~loading']_vars
    /\ [][(FetchFinishes /\ pageMounted) => ~loading']_vars

C20_Witness ==
    /\ pageMounted
    /\ ~loading
    /\ mounted
    /\ lastFetch.status = "ok"
    /\ ~IsArray(lastFetch.chain)
    /\ homeBlocks = Array(<<>>)
    /\ cur = 1
    /\ pc = "idle"
    /\ timers = {1}

\* --------------------------------------------------- order of responses
\* newest after the fetchBlocks call f got resp: the chain it stored, if f is
\* the call started last
NewestAfter(f, resp) ==
    IF f.id # nextFetch - 1 THEN newest
    ELSE IF Accepted(resp) THEN resp.chain ELSE Undefined

\* newest after a handler that may have called fetchBlocks: a call started
\* now has got nothing yet
NewestStarted == newest' = IF nextFetch' # nextFetch THEN Undefined ELSE newest

\* Home as in NextMining, with newest following the calls of fetchBlocks
NextRace ==
    \/ \E f \in fetches, resp \in Responses :
          FetchCompletes(f, resp) /\ newest' = NewestAfter(f, resp)
    \/ \E t \in timers : PollTick(t) /\ NewestStarted
    \/ TransactionAccepted /\ NewestStarted
    \/ \E detachFirst \in BOOLEAN : PageUnmount(detachFirst) /\ NewestStarted
    \/ HandleMining /\ NewestStarted
    \/ \E resp \in MineResponses : MineResponds(resp) /\ NewestStarted
    \/ RunEffect /\ UNCHANGED pageVars
    \/ RunCleanup /\ UNCHANGED pageVars
    \/ \E e \in rafQueue : Frame(e) /\ UNCHANGED pageVars
    \/ \E w \in Widths, h \in Heights : WindowResize(w, h) /\ UNCHANGED pageVars

SpecRace == InitPage /\ [][NextRace]_vars

\* ----------------------------------------------------------------- C21
\* handleMining calls in progress: awaiting /mine or awaiting fetchBlocks()
MineCalls ==
    mineRequests + Cardinality({f \in fetches : f.origin = "mine"})

MiningFlag ==
    /\ mineRequests \in {0, 1}
    /\ MineCalls \in {0, 1}
    /\ pageMounted => (mining <=> MineCalls = 1)
    /\ MineCalls = 1 => mining

MiningStep ==
    /\ (~mining /\ mining') =>
          (pageMounted /\ MineCalls = 0 /\ mineRequests' = 1)
    /\ (mining /\ ~mining') =>
          (pageMounted /\ MineCalls = 1 /\ MineCalls' = 0)
    /\ (MineCalls = 1 /\ MineCalls' = 0 /\ pageMounted) => ~mining'
    /\ (mineRequests' < mineRequests /\ pageMounted) =>
          (mining' = mining <=> MineCalls' = 1)

\* C21: while Home is mounted the mining flag is true exactly while a
\* handleMining call is in progress (awaiting /mine or the chain refresh);
\* it becomes true only by a click that starts a call and false only when
\* the call ends, whatever the outcome of the mine request and of the
\* refresh; at most one mine request and one call are in progress at any
\* time; and every started call ends once its requests are answered.
C21_MiningFlag ==
    /\ []MiningFlag
    /\ [][MiningStep]_vars
    /\ (MineCalls = 1) ~> (MineCalls = 0)

C21_Witness ==
    /\ pageMounted
    /\ mounted
    /\ mining
    /\ mineRequests = 0
    /\ \E f \in fetches : f.origin = "mine"
    /\ pc = "idle"
    /\ cur = 1

\* ----------------------------------------------------------------- C22
\* C22: once every fetchBlocks call has finished, the blocks state of the
\* mounted Home, and with it the blocks prop of the visualization, is the
\* chain that the call started last has got, whatever the order in which
\* the calls finished.
C22_NewestResponseWins ==
    (pageMounted /\ fetches = {} /\ IsArray(newest)) =>
        /\ homeBlocks = newest
        /\ blocks = newest.items

====
